---- MODULE Spec2Model ----
(***************************************************************************)
(* Model of the layout engine of jinja-formatter (src/src/main.rs):        *)
(* peek_jinja_stmt_keyword classifies one syntax-tree node and             *)
(* format_jinja_node walks the direct children of the root node, keeping   *)
(* two indent counters and appending to the output buffer.                 *)
(*                                                                         *)
(* A syntax-tree node is a record                                          *)
(*   kind         node.kind()                                              *)
(*   has_child1   node.child(1) is Some                                    *)
(*   child1_utf8  node.child(1).utf8_text(source) is Ok                    *)
(*   child1_text  the text of child 1                                      *)
(*   utf8         node.utf8_text(source) is Ok                             *)
(*   text         the node's source slice, a sequence of characters; a     *)
(*                string other than NL and SP stands for a run of          *)
(*                characters without a line break                          *)
(* The output buffer is a sequence of characters of the same alphabet.     *)
(***************************************************************************)
EXTENDS Integers, Sequences, FiniteSets, TLC

VARIABLES root, i, curr_ident, next_ident, last_node_kind, formatted,
          emitted, pc, fault, result

vars == <<root, i, curr_ident, next_ident, last_node_kind, formatted,
          emitted, pc, fault, result>>

\* ---------------------------------------------------------------- bounds
\* longest sibling sequence over the full node alphabet
MaxLen == 3
\* longest sibling sequence over the block alphabet (nesting needs length)
MaxBlockLen == 5
\* width of usize in the model (the arithmetic is modulo 2^UsizeBits)
UsizeBits == 16

\* ------------------------------------------------------------- constants
INDENT_SIZE == 2

NL == "\n"
SP == " "

UsizeModulus == 2 ^ UsizeBits
\* the largest capacity an allocation accepts (isize::MAX)
IsizeMax == 2 ^ (UsizeBits - 1) - 1

\* ------------------------------------------------------------ the nodes
Openers == {"if", "for", "macro", "call", "filter"}
MidMarkers == {"elif", "else"}
Closers == {"endif", "endfor", "endmacro", "endcall", "endfilter"}

Statement(kw) ==
    [kind |-> "statement", has_child1 |-> TRUE, child1_utf8 |-> TRUE,
     child1_text |-> kw, utf8 |-> TRUE, text |-> <<"{%", kw, "%}">>]

\* a statement node with a single child: child(1) is None
StatementNoChild1 ==
    [kind |-> "statement", has_child1 |-> FALSE, child1_utf8 |-> FALSE,
     child1_text |-> "", utf8 |-> TRUE, text |-> <<"{%">>]

\* a statement whose child 1 has a byte range that is not valid UTF-8
\* although the range of the statement itself is
StatementBadChild1 ==
    [kind |-> "statement", has_child1 |-> TRUE, child1_utf8 |-> FALSE,
     child1_text |-> "", utf8 |-> TRUE, text |-> <<"{%", "?", "%}">>]

\* a statement whose own byte range is not valid UTF-8 either
StatementBadText ==
    [kind |-> "statement", has_child1 |-> TRUE, child1_utf8 |-> FALSE,
     child1_text |-> "", utf8 |-> FALSE, text |-> <<>>]

Expression ==
    [kind |-> "expression", has_child1 |-> TRUE, child1_utf8 |-> TRUE,
     child1_text |-> "e", utf8 |-> TRUE, text |-> <<"{{e}}">>]

Text(t) ==
    [kind |-> "text", has_child1 |-> FALSE, child1_utf8 |-> FALSE,
     child1_text |-> "", utf8 |-> TRUE, text |-> t]

StatementKeywords ==
    Openers \cup MidMarkers \cup Closers \cup {"set", "include"}

Nodes ==
    {Statement(kw) : kw \in StatementKeywords}
        \cup {StatementNoChild1, StatementBadChild1, StatementBadText,
              Expression}
        \cup {Text(<<"x">>), Text(<<NL, "x">>), Text(<<"x", NL>>)}

BlockNodes ==
    {Statement(kw) : kw \in {"if", "for", "else", "endif", "endfor", "set"}}
        \cup {Text(<<"x">>)}

\* ------------------------------------------------- peek_jinja_stmt_keyword
None == [some |-> FALSE, val |-> ""]
Some(v) == [some |-> TRUE, val |-> v]

\* variant: an absent or undecodable child 1 is passed on as a keyword
peek_unwrapping(node) ==
    IF node.kind # "statement" THEN None
    ELSE IF node.has_child1 /\ node.child1_utf8
         THEN IF node.child1_text \in
                    {"if", "elif", "else", "endif", "for", "endfor", "macro",
                     "endmacro", "call", "endcall", "filter", "endfilter"}
              THEN Some(node.child1_text)
              ELSE None
         ELSE Some("")

peek_jinja_stmt_keyword(node) ==
    IF node.kind # "statement" THEN None
    ELSE IF node.has_child1 /\ node.child1_utf8
         THEN IF node.child1_text \in
                    {"if", "elif", "else", "endif", "for", "endfor", "macro",
                     "endmacro", "call", "endcall", "filter", "endfilter"}
              THEN Some(node.child1_text)
              ELSE None
         ELSE None

\* --------------------------------------------------------- usize arithmetic
\* variant: a saturating subtraction
SubOne_saturating(x, overflow_checks) ==
    [ok |-> TRUE, val |-> IF x = 0 THEN 0 ELSE x - 1]

\* x - 1 on usize: with overflow checks a panic at 0, otherwise wrap-around
SubOne(x, overflow_checks) ==
    IF x = 0
    THEN IF overflow_checks
         THEN [ok |-> FALSE, val |-> 0]
         ELSE [ok |-> TRUE, val |-> UsizeModulus - 1]
    ELSE [ok |-> TRUE, val |-> x - 1]

\* x * y on usize
Mul(x, y, overflow_checks) ==
    IF x * y >= UsizeModulus
    THEN IF overflow_checks
         THEN [ok |-> FALSE, val |-> 0]
         ELSE [ok |-> TRUE, val |-> (x * y) % UsizeModulus]
    ELSE [ok |-> TRUE, val |-> x * y]

\* " ".repeat(n)
Repeat(n) == [k \in 1..n |-> SP]

\* ------------------------------------------------------ format_jinja_node
\* variants of the match on the keyword
AdjustWith(keyword, curr, next, overflow_checks, arms) ==
    LET c == SubOne(curr, overflow_checks)
        n == SubOne(next, overflow_checks)
    IN  IF ~keyword.some
        THEN [ok |-> TRUE, curr |-> curr,
              next |-> IF arms.none_opens THEN next + 1 ELSE next]
        ELSE IF keyword.val \in Openers
        THEN [ok |-> TRUE,
              curr |-> IF arms.opener_now THEN curr + 1 ELSE curr,
              next |-> next + 1]
        ELSE IF keyword.val \in MidMarkers
        THEN IF arms.mid_both
             THEN [ok |-> c.ok /\ n.ok, curr |-> c.val, next |-> n.val]
             ELSE [ok |-> c.ok, curr |-> c.val, next |-> next]
        ELSE IF keyword.val \in Closers
        THEN IF arms.closer_late
             THEN [ok |-> n.ok, curr |-> curr, next |-> n.val]
             ELSE [ok |-> c.ok /\ n.ok, curr |-> c.val, next |-> n.val]
        ELSE [ok |-> FALSE, curr |-> curr, next |-> next]

NoVariant ==
    [none_opens |-> FALSE, opener_now |-> FALSE, mid_both |-> FALSE,
     closer_late |-> FALSE]

\* a closer takes effect only from the next sibling on
Adjust_closer_late(keyword, curr, next, overflow_checks) ==
    AdjustWith(keyword, curr, next, overflow_checks,
               [NoVariant EXCEPT !.closer_late = TRUE])

\* a child without keyword opens a block
Adjust_none_opens(keyword, curr, next, overflow_checks) ==
    AdjustWith(keyword, curr, next, overflow_checks,
               [NoVariant EXCEPT !.none_opens = TRUE])

\* an opener is indented itself
Adjust_opener_now(keyword, curr, next, overflow_checks) ==
    AdjustWith(keyword, curr, next, overflow_checks,
               [NoVariant EXCEPT !.opener_now = TRUE])

\* elif/else decrement pending too
Adjust_mid_both(keyword, curr, next, overflow_checks) ==
    AdjustWith(keyword, curr, next, overflow_checks,
               [NoVariant EXCEPT !.mid_both = TRUE])

\* the match on the keyword (lines 79-95): the counters after it
Adjust(keyword, curr, next, overflow_checks) ==
    IF ~keyword.some
    THEN [ok |-> TRUE, curr |-> curr, next |-> next]
    ELSE IF keyword.val \in {"if", "for", "macro", "call", "filter"}
    THEN [ok |-> TRUE, curr |-> curr, next |-> next + 1]
    ELSE IF keyword.val \in {"elif", "else"}
    THEN LET c == SubOne(curr, overflow_checks)
         IN  [ok |-> c.ok, curr |-> c.val, next |-> next]
    ELSE IF keyword.val \in
              {"endif", "endfor", "endmacro", "endcall", "endfilter"}
    THEN LET c == SubOne(curr, overflow_checks)
             n == SubOne(next, overflow_checks)
         IN  [ok |-> c.ok /\ n.ok, curr |-> c.val, next |-> n.val]
    ELSE [ok |-> FALSE, curr |-> curr, next |-> next]

\* variant: a break only when neither node is an expression
Breaks_and(node, last) == node.kind # "expression" /\ last # "expression"

\* the condition of line 97
Breaks(node, last) == node.kind # "expression" \/ last # "expression"

Panic(reason) ==
    /\ pc' = "panicked"
    /\ fault' = reason
    /\ UNCHANGED <<root, i, curr_ident, next_ident, last_node_kind,
                   formatted, emitted, result>>

\* one iteration of the loop of line 76
Iterate ==
    /\ pc = "loop"
    /\ i < Len(root)
    /\ \E overflow_checks \in BOOLEAN :
         LET node == root[i + 1]
             keyword == peek_jinja_stmt_keyword(node)
             adj == Adjust(keyword, curr_ident, next_ident, overflow_checks)
             brk == Breaks(node, last_node_kind)
             width == Mul(adj.curr, INDENT_SIZE, overflow_checks)
         IN  IF ~adj.ok
             THEN Panic(IF keyword.val \in MidMarkers \cup Closers
                        THEN "attempt to subtract with overflow"
                        ELSE "unknown keyword")
             ELSE IF brk /\ ~width.ok
             THEN Panic("attempt to multiply with overflow")
             ELSE IF brk /\ width.val > IsizeMax
             THEN Panic("capacity overflow")
             ELSE IF ~node.utf8
             THEN Panic("unwrap on Utf8Error")
             ELSE /\ formatted' =
                        formatted
                          \o (IF brk THEN <<NL>> \o Repeat(width.val)
                                     ELSE <<>>)
                          \o node.text
                  /\ emitted' =
                        Append(emitted, [brk |-> brk, level |-> adj.curr])
                  /\ last_node_kind' = node.kind
                  /\ curr_ident' = adj.next
                  /\ next_ident' = adj.next
                  /\ i' = i + 1
                  /\ UNCHANGED <<root, pc, fault, result>>

\* variant: the first character is kept
Return_no_strip ==
    /\ pc = "loop"
    /\ i = Len(root)
    /\ IF Len(formatted) < 1
       THEN Panic("byte index 1 is out of bounds")
       ELSE /\ result' = formatted \o <<NL>>
            /\ pc' = "returned"
            /\ UNCHANGED <<root, i, curr_ident, next_ident, last_node_kind,
                           formatted, emitted, fault>>

\* variant: an empty buffer is returned as a single line break
Return_empty_ok ==
    /\ pc = "loop"
    /\ i = Len(root)
    /\ result' = SubSeq(formatted, 2, Len(formatted)) \o <<NL>>
    /\ pc' = "returned"
    /\ UNCHANGED <<root, i, curr_ident, next_ident, last_node_kind,
                   formatted, emitted, fault>>

\* line 108: formatted[1..].to_string() + "\n"
Return ==
    /\ pc = "loop"
    /\ i = Len(root)
    /\ IF Len(formatted) < 1
       THEN Panic("byte index 1 is out of bounds")
       ELSE /\ result' = SubSeq(formatted, 2, Len(formatted)) \o <<NL>>
            /\ pc' = "returned"
            /\ UNCHANGED <<root, i, curr_ident, next_ident, last_node_kind,
                           formatted, emitted, fault>>

SeqsUpTo(S, n) == UNION {[1..k -> S] : k \in 0..n}

Init ==
    /\ root \in SeqsUpTo(Nodes, MaxLen) \cup SeqsUpTo(BlockNodes, MaxBlockLen)
    /\ i = 0
    /\ curr_ident = 0
    /\ next_ident = 0
    /\ last_node_kind = ""
    /\ formatted = <<>>
    /\ emitted = <<>>
    /\ pc = "loop"
    /\ fault = ""
    /\ result = <<>>

Next == Iterate \/ Return

Spec == Init /\ [][Next]_vars

\* ------------------------------------------- reading a sibling sequence
\* the class of child k, read off the node itself
IsStatementWith(k, kws) ==
    /\ root[k].kind = "statement"
    /\ root[k].has_child1
    /\ root[k].child1_utf8
    /\ root[k].child1_text \in kws

IsOpener(k) == IsStatementWith(k, Openers)
IsMid(k) == IsStatementWith(k, MidMarkers)
IsCloser(k) == IsStatementWith(k, Closers)
IsRecognized(k) == IsOpener(k) \/ IsMid(k) \/ IsCloser(k)

NumOpeners(lo, hi) == Cardinality({k \in lo..hi : IsOpener(k)})
NumClosers(lo, hi) == Cardinality({k \in lo..hi : IsCloser(k)})

\* blocks open just before child k
DepthBefore(k) == NumOpeners(1, k - 1) - NumClosers(1, k - 1)

\* the level the keyword count assigns to child k
CountedLevel(k) ==
    NumOpeners(1, k - 1) - NumClosers(1, k) - (IF IsMid(k) THEN 1 ELSE 0)

Last(s) == s[Len(s)]
StartsWith(s, t) == Len(s) >= Len(t) /\ SubSeq(s, 1, Len(t)) = t
EndsWith(s, t) ==
    Len(s) >= Len(t) /\ SubSeq(s, Len(s) - Len(t) + 1, Len(s)) = t

\* ------------------------------------------------------------------ C6
\* C6: every emitted child k is emitted at the level
\* (openers among the children before k) - (closers among the children up
\* to and including k) - (1 if k is elif/else); [for, if, text, endif,
\* endfor] comes out at levels 0,1,2,1,0 and [if, text, endif] at 0,1,0,
\* with two spaces per level.
ForIfExample ==
    <<Statement("for"), Statement("if"), Text(<<"x">>), Statement("endif"),
      Statement("endfor")>>

IfExample == <<Statement("if"), Text(<<"x">>), Statement("endif")>>

C6_LevelIsKeywordCount ==
    /\ \A k \in 1..Len(emitted) : emitted[k].level = CountedLevel(k)
    /\ (pc = "returned" /\ root = ForIfExample) =>
          /\ [k \in 1..5 |-> emitted[k].level] = <<0, 1, 2, 1, 0>>
          /\ result = <<"{%", "for", "%}", NL,
                        SP, SP, "{%", "if", "%}", NL,
                        SP, SP, SP, SP, "x", NL,
                        SP, SP, "{%", "endif", "%}", NL,
                        "{%", "endfor", "%}", NL>>
    /\ (pc = "returned" /\ root = IfExample) =>
          /\ [k \in 1..3 |-> emitted[k].level] = <<0, 1, 0>>
          /\ result = <<"{%", "if", "%}", NL, SP, SP, "x", NL,
                        "{%", "endif", "%}", NL>>

C6_Witness == pc = "returned" /\ root = ForIfExample

\* ------------------------------------------------------------------ C2
\* the buffer after the first k children, laid out by the rule of the
\* claim: a break and level * INDENT_SIZE spaces before a child unless the
\* child and its predecessor are both expressions
JoinsPrevious(k) ==
    k > 1 /\ root[k].kind = "expression" /\ root[k - 1].kind = "expression"

RECURSIVE Layout(_)
Layout(k) ==
    IF k = 0 THEN <<>>
    ELSE Layout(k - 1)
           \o (IF JoinsPrevious(k) THEN <<>>
               ELSE <<NL>> \o [n \in 1..(CountedLevel(k) * INDENT_SIZE) |-> SP])
           \o root[k].text

\* C2: before child i's text a line break and current * INDENT_SIZE spaces
\* are inserted unless child i and child i-1 are both expressions: a run
\* of expressions is joined, any other neighbour and the first child get a
\* break.
C2_BreakUnlessBothExpressions ==
    /\ \A k \in 1..Len(emitted) : emitted[k].brk <=> ~JoinsPrevious(k)
    /\ formatted = Layout(Len(emitted))

C2_Witness ==
    /\ pc = "returned"
    /\ \E k \in 2..(Len(root) - 1) :
         /\ root[k - 1].kind # "expression"
         /\ root[k].kind = "expression"
         /\ root[k + 1].kind = "expression"
         /\ emitted[k].level > 0

\* ------------------------------------------------------------------ C3
\* C3 as stated: for a non-empty child sequence the returned string never
\* starts with a line break and ends with exactly one.
C3_Original ==
    (pc = "returned" /\ Len(root) > 0) =>
        /\ result[1] # NL
        /\ Last(result) = NL
        /\ Len(result) >= 2 => result[Len(result) - 1] # NL

\* C3 amended: for a non-empty child sequence the returned string is the
\* buffer without its first character, which is the break inserted before
\* the first child, followed by one appended break: it begins with the
\* first child's text and ends with the last child's text and one break,
\* so it starts with a line break only if the first child's text does and
\* ends with exactly one unless the last child's text ends with one.
C3_StripFirstAppendOne ==
    (pc = "returned" /\ Len(root) > 0) =>
        /\ formatted[1] = NL
        /\ result = Tail(formatted) \o <<NL>>
        /\ StartsWith(result, root[1].text)
        /\ EndsWith(result, root[Len(root)].text \o <<NL>>)
        /\ root[1].text[1] # NL => result[1] # NL
        /\ Last(root[Len(root)].text) # NL =>
              /\ Last(result) = NL
              /\ result[Len(result) - 1] # NL

C3_Witness ==
    /\ pc = "returned"
    /\ Len(root) >= 2
    /\ IsOpener(1)
    /\ root[Len(root)].kind = "text"
    /\ Last(root[Len(root)].text) # NL

\* ------------------------------------------------------------------ C1
\* openers and closers pair like brackets, each closer of its opener's kind
ClosingOf(kw) ==
    CASE kw = "if" -> "endif"
      [] kw = "for" -> "endfor"
      [] kw = "macro" -> "endmacro"
      [] kw = "call" -> "endcall"
      [] kw = "filter" -> "endfilter"
      [] OTHER -> ""

\* the closer that ends the block opened by child a
MatchOf(a) ==
    LET ends == {b \in (a + 1)..Len(root) :
                    IsCloser(b) /\ DepthBefore(b + 1) = DepthBefore(a)}
    IN  IF ends = {} THEN 0
        ELSE CHOOSE b \in ends : \A c \in ends : b <= c

ProperlyPaired ==
    /\ \A k \in 1..Len(root) : IsCloser(k) => DepthBefore(k) >= 1
    /\ DepthBefore(Len(root) + 1) = 0
    /\ \A a \in 1..Len(root) :
         IsOpener(a) =>
            root[MatchOf(a)].child1_text = ClosingOf(root[a].child1_text)

\* the number of blocks child k lies in; a closer lies in the blocks
\* around the pair it ends
Enclosing(k) == IF IsCloser(k) THEN DepthBefore(k) - 1 ELSE DepthBefore(k)

StrictlyInside(a, k) == IsOpener(a) /\ a < k /\ k < MatchOf(a)

\* C1 as stated: with properly paired openers and closers, every statement
\* strictly between an opener and its matching closer is emitted exactly
\* one level deeper than the opener.
C1_Original ==
    (pc = "returned" /\ ProperlyPaired) =>
        \A a, k \in 1..Len(root) :
            (StrictlyInside(a, k) /\ root[k].kind = "statement") =>
                emitted[k].level = emitted[a].level + 1

\* C1 amended: with properly paired openers and closers, a statement
\* strictly between an opener and its matching closer that lies in no
\* further pair in between (the opener and the closer of a nested pair lie
\* outside their own pair) is emitted exactly one level deeper than the
\* opener, unless it is elif/else, which is emitted at the opener's level;
\* a statement that lies in d further pairs is emitted d levels deeper
\* still.
C1_BodyOneDeeper ==
    (pc = "returned" /\ ProperlyPaired) =>
        \A a, k \in 1..Len(root) :
            (StrictlyInside(a, k) /\ root[k].kind = "statement") =>
                LET d == Enclosing(k) - Enclosing(a) - 1
                IN  /\ d >= 0
                    /\ emitted[k].level =
                          emitted[a].level + 1 + d
                             - (IF IsMid(k) THEN 1 ELSE 0)

C1_Witness ==
    /\ pc = "returned"
    /\ ProperlyPaired
    /\ \E a, k, m \in 1..Len(root) :
         /\ StrictlyInside(a, k)
         /\ StrictlyInside(a, m)
         /\ IsMid(m)
         /\ Enclosing(m) = Enclosing(a) + 1
         /\ root[k].kind = "statement"
         /\ IsCloser(k)
         /\ emitted[k].level = emitted[a].level + 1

\* ------------------------------------------------------------------ C5
\* a child the claim calls unrecognized: not a statement, or a statement
\* whose keyword text is outside the fixed set
Unrecognized(node) ==
    \/ node.kind # "statement"
    \/ /\ node.has_child1
       /\ node.child1_utf8
       /\ node.child1_text \notin Openers \cup MidMarkers \cup Closers

AtChild == pc = "loop" /\ i < Len(root)

\* C5: an iteration step on a child that is not a recognized keyword
\* leaves current and pending as they were, at any position.
C5_UnrecognizedKeepsCounters ==
    [][(AtChild /\ Unrecognized(root[i + 1])) =>
          /\ curr_ident' = curr_ident
          /\ next_ident' = next_ident
          /\ i' = i + 1 => emitted'[i'].level = curr_ident]_vars

C5_Witness ==
    /\ i >= 2
    /\ Len(emitted) = i
    /\ root[i] = Statement("set")
    /\ curr_ident > 0

\* ------------------------------------------------------------------ C7
MidStep == AtChild /\ IsMid(i + 1) /\ i' = i + 1

\* C7 as stated: at elif/else current is decremented so the marker is
\* emitted at the reduced level, and at the end of the step pending equals
\* the reduced current, the next sibling being emitted at it too.
C7_Original ==
    [][MidStep =>
          /\ emitted'[i'].level = curr_ident - 1
          /\ next_ident' = curr_ident - 1
          /\ curr_ident' = curr_ident - 1]_vars

\* C7 amended: at elif/else current is decremented so the marker is
\* emitted at the reduced level, pending is left as it is, and at the end
\* of the step current is set back to pending: the next sibling starts one
\* level deeper than the marker.
C7_MidMarkerKeepsPending ==
    [][MidStep =>
          /\ emitted'[i'].level = curr_ident - 1
          /\ next_ident' = next_ident
          /\ curr_ident' = next_ident
          /\ curr_ident' = emitted'[i'].level + 1]_vars

C7_Witness ==
    /\ i >= 2
    /\ Len(emitted) = i
    /\ IsMid(i)
    /\ curr_ident = emitted[i].level + 1

\* ------------------------------------------------------------------ C8
\* a statement whose second child is absent or cannot be decoded
NoKeywordText(node) ==
    node.kind = "statement" /\ (~node.has_child1 \/ ~node.child1_utf8)

C9_UnderflowNeverReturns ==
    /\ [][(AtChild /\ (IsMid(i + 1) \/ IsCloser(i + 1)) /\ curr_ident = 0) =>
             /\ pc' = "panicked"
             /\ fault' \in {"attempt to subtract with overflow",
                            "capacity overflow"}]_vars
    /\ [](pc = "returned" =>
             \A k \in 1..Len(root) :
                /\ emitted[k].level \in 0..Len(root)
                /\ (IsMid(k) \/ IsCloser(k)) => DepthBefore(k) > 0)

C9_Witness ==
    /\ pc = "panicked"
    /\ fault = "capacity overflow"
    /\ i >= 1
    /\ IsCloser(i + 1)

\* ----------------------------------------------------------------- C10
\* C10: for a root without children the call does not return a string:
\* the buffer is empty after the loop and stripping its first character
\* faults.
C10_EmptyRootFaults ==
    Len(root) = 0 =>
        /\ pc # "returned"
        /\ result = <<>>
        /\ pc # "loop" =>
              pc = "panicked" /\ fault = "byte index 1 is out of bounds"

C10_Witness == Len(root) = 0 /\ pc = "panicked" /\ formatted = <<>>
====
